---- MODULE Spec2Model ----
(***************************************************************************)
(* Retro Notes (src/notes_frontend/src/App.js): the App component's state, *)
(* its event handlers and the continuations of its asynchronous handlers,  *)
(* and the notes API client the handlers call.                             *)
(*                                                                         *)
(* Representation of JavaScript values:                                    *)
(*  - a title is a sequence of characters, so that trim() and length are   *)
(*    computed; a character is a string: the character itself when it is   *)
(*    an ASCII character, and "U+" with the four hexadecimal digits of its *)
(*    code unit when it is not ("U+00A0" is the no-break space, "U+00E9"   *)
(*    the letter e with an acute accent); every other string is a TLA+     *)
(*    string of ASCII characters;                                          *)
(*  - a JSON value (a response body, a raw note, a raw note's field) is a  *)
(*    tagged record [t |-> "null" | "undefined" | "string" | "number" |    *)
(*    "boolean" | "array" | "object", v |-> ...]; a number is an integer,  *)
(*    an array's v is a sequence of JSON values and an object's v a        *)
(*    function from its keys to JSON values;                               *)
(*  - a UI note is a function from a subset of                             *)
(*    {"id","title","content","updatedAt","createdAt"} to strings: an      *)
(*    optional field that is missing is not in the DOMAIN;                 *)
(*  - selectedId is a string or Null.                                      *)
(***************************************************************************)
EXTENDS Integers, Sequences, FiniteSets, TLC

(***************************************************************************)
(* Bounds of the model.                                                    *)
(***************************************************************************)
\* The server creates a note while the collection of the request holds fewer
\* than MaxNotes notes, and fails for the others.
MaxNotes == 2
\* At most MaxTimers status-clear timers are pending at a time.
MaxTimers == 2

(***************************************************************************)
(* Program constants.                                                      *)
(***************************************************************************)
\* titleError: draft.title.trim().length > 80
MaxTitleLen == 80
\* maxLength={120} of the title input
InputMaxLength == 120

Null == "<null>"
NoNote == [none |-> TRUE]
EMPTY_DRAFT == [title |-> <<>>, content |-> ""]

(***************************************************************************)
(* Strings.                                                                *)
(***************************************************************************)
Rep(c, n) == [i \in 1..n |-> c]

\* the white space and line terminators String.prototype.trim removes: tab,
\* line feed, vertical tab, form feed, carriage return, space, no-break
\* space, ogham space mark, en quad to hair space, line separator, paragraph
\* separator, narrow no-break space, medium mathematical space, ideographic
\* space and the byte order mark. Next line (U+0085) and zero width space
\* (U+200B) are none of them.
WhiteSpace ==
  {"\t", "\n", "", "\f", "\r", " ", "U+00A0", "U+1680",
   "U+2000", "U+2001", "U+2002", "U+2003", "U+2004", "U+2005", "U+2006",
   "U+2007", "U+2008", "U+2009", "U+200A", "U+2028", "U+2029", "U+202F",
   "U+205F", "U+3000", "U+FEFF"}

IsSpace(c) == c \in WhiteSpace

RECURSIVE TrimStart(_)
TrimStart(s) ==
  IF s = <<>> THEN <<>>
  ELSE IF IsSpace(Head(s)) THEN TrimStart(Tail(s)) ELSE s

RECURSIVE TrimEnd(_)
TrimEnd(s) ==
  IF s = <<>> THEN <<>>
  ELSE IF IsSpace(s[Len(s)]) THEN TrimEnd(SubSeq(s, 1, Len(s) - 1)) ELSE s

\* String.prototype.trim
Trim(s) == TrimEnd(TrimStart(s))

(***************************************************************************)
(* JSON values.                                                            *)
(***************************************************************************)
JNull == [t |-> "null"]
JUndefined == [t |-> "undefined"]
JStr(s) == [t |-> "string", v |-> s]
JNum(n) == [t |-> "number", v |-> n]
JBool(b) == [t |-> "boolean", v |-> b]
JArr(a) == [t |-> "array", v |-> a]
JObj(f) == [t |-> "object", v |-> f]

\* x.k for a key k: undefined when x is no object or has no such key
Get(x, k) ==
  IF x.t = "object" /\ k \in DOMAIN x.v THEN x.v[k] ELSE JUndefined

\* a ?? b
Nullish(a, b) == IF a.t \in {"null", "undefined"} THEN b ELSE a

\* The outcome of a call: it throws an Error with a message, or returns a
\* value.
Throw(message) == [throw |-> TRUE, message |-> message, value |-> JUndefined]
Return(value) == [throw |-> FALSE, message |-> "", value |-> value]

\* the message of the TypeError of a value that has no primitive value
TypeErrorMessage == "Cannot convert object to primitive value"

\* String(x): a string is itself, a number its decimal digits, an array its
\* elements joined by "," with "" for an element that is null or undefined,
\* and an object "[object Object]". An object that has a toString property
\* of its own has no primitive value (no value of a JSON text can be called,
\* and Object.prototype.valueOf returns the object): String throws a
\* TypeError, also when such an object is an element of an array.
RECURSIVE String(_)
String(x) ==
  LET RECURSIVE join(_)
      join(a) ==
        IF a = <<>> THEN Return("")
        ELSE LET first == IF Head(a).t \in {"null", "undefined"}
                          THEN Return("")
                          ELSE String(Head(a))
                 rest == join(Tail(a))
             IN IF first.throw THEN first
                ELSE IF Len(a) = 1 THEN first
                ELSE IF rest.throw THEN rest
                ELSE Return(first.value \o "," \o rest.value)
  IN CASE x.t = "string" -> Return(x.v)
       [] x.t = "number" -> Return(ToString(x.v))
       [] x.t = "boolean" -> Return(IF x.v THEN "true" ELSE "false")
       [] x.t = "null" -> Return("null")
       [] x.t = "undefined" -> Return("undefined")
       [] x.t = "object" -> IF "toString" \in DOMAIN x.v
                            THEN Throw(TypeErrorMessage)
                            ELSE Return("[object Object]")
       [] x.t = "array" -> join(x.v)

\* the characters of a string of ASCII characters
Chars(s) == [i \in 1..Len(s) |-> SubSeq(s, i, i)]

\* String(x) of the value of a title field: the characters of the title
StringOfTitle(x) ==
  IF x.t = "string" THEN Return(x.v)
  ELSE LET str == String(x)
       IN IF str.throw THEN str ELSE Return(Chars(str.value))

\* truthiness of a field value (of a string that is no title)
Truthy(x) ==
  CASE x.t \in {"null", "undefined"} -> FALSE
    [] x.t = "string" -> x.v # ""
    [] x.t = "number" -> x.v # 0
    [] x.t = "boolean" -> x.v
    [] OTHER -> TRUE

(***************************************************************************)
(* sortNotes                                                               *)
(***************************************************************************)
\* An instant: milliseconds since the epoch, kept as days since the epoch and
\* milliseconds of that day (days * 86400000 + ms: the product does not fit
\* TLC's integers).
Instant(days, ms) == [days |-> days, ms |-> ms]

\* a - b > 0 for two instants
After(a, b) == a.days > b.days \/ (a.days = b.days /\ a.ms > b.ms)

\* the days from 1970-01-01 to the day d of month m of year y
DaysFromCivil(y, m, d) ==
  LET yy == IF m <= 2 THEN y - 1 ELSE y
      era == yy \div 400
      yoe == yy - era * 400
      mp == (m + 9) % 12
      doy == ((153 * mp + 2) \div 5) + d - 1
      doe == yoe * 365 + yoe \div 4 - yoe \div 100 + doy
  IN era * 146097 + doe - 719468

NaN == [finite |-> FALSE, days |-> 0, ms |-> 0]

(* Date.parse, as V8 computes it: the string is cut into tokens, the parser *)
(* of the date-time format of the language reads them, the legacy parser    *)
(* goes on where the format ends, and the numbers read are composed into a  *)
(* day, a time and a time zone. A timestamp is a string of ASCII            *)
(* characters.                                                              *)
\* the character of s at position i, "" past its end
At(s, i) == IF 1 <= i /\ i <= Len(s) THEN SubSeq(s, i, i) ELSE ""

AsciiDigits == {"0", "1", "2", "3", "4", "5", "6", "7", "8", "9"}

\* AsciiAlphaToLower (c | 0x20) of the letters
LowerCase ==
  [A |-> "a", B |-> "b", C |-> "c", D |-> "d", E |-> "e", F |-> "f",
   G |-> "g", H |-> "h", I |-> "i", J |-> "j", K |-> "k", L |-> "l",
   M |-> "m", N |-> "n", O |-> "o", P |-> "p", Q |-> "q", R |-> "r",
   S |-> "s", T |-> "t", U |-> "u", V |-> "v", W |-> "w", X |-> "x",
   Y |-> "y", Z |-> "z"]

\* AsciiAlphaToLower (c | 0x20) of a character of a word: a letter becomes
\* its lower case, and "[", "\", "]", "^", "_" become "{", "|", "}", "~" and
\* the delete character
ToLower(c) ==
  IF c \in DOMAIN LowerCase THEN LowerCase[c]
  ELSE IF c = "[" THEN "{"
  ELSE IF c = "\\" THEN "|"
  ELSE IF c = "]" THEN "}"
  ELSE IF c = "^" THEN "~"
  ELSE IF c = "_" THEN ""
  ELSE c

\* the characters of a word of a date string: "A" and above, up to the
\* delete character (a grave accent cannot be written in a string here)
WordChars ==
  {"A", "B", "C", "D", "E", "F", "G", "H", "I", "J", "K", "L", "M", "N",
   "O", "P", "Q", "R", "S", "T", "U", "V", "W", "X", "Y", "Z", "[", "\\",
   "]", "^", "_", "a", "b", "c", "d", "e", "f", "g", "h", "i", "j", "k",
   "l", "m", "n", "o", "p", "q", "r", "s", "t", "u", "v", "w", "x", "y",
   "z", "{", "|", "}", "~", ""}

DigitValue ==
  ("0" :> 0) @@ ("1" :> 1) @@ ("2" :> 2) @@ ("3" :> 3) @@ ("4" :> 4)
    @@ ("5" :> 5) @@ ("6" :> 6) @@ ("7" :> 7) @@ ("8" :> 8) @@ ("9" :> 9)

Digit(c) == DigitValue[c]

\* the first position from i on whose character is not in the set
RECURSIVE RunEnd(_, _, _)
RunEnd(s, i, set) ==
  IF i <= Len(s) /\ At(s, i) \in set THEN RunEnd(s, i + 1, set) ELSE i

\* ReadUnsignedNumeral: the value of the digits from i to j - 1, leading
\* zeros skipped and no more than digits significant digits read
RECURSIVE ReadDigits(_, _, _, _, _)
ReadDigits(s, k, j, n, digits) ==
  IF k >= j \/ digits = 0 THEN n
  ELSE ReadDigits(s, k + 1, j, 10 * n + Digit(At(s, k)), digits - 1)

ReadUnsignedNumeral(s, i, j, digits) ==
  ReadDigits(s, RunEnd(s, i, {"0"}), j, 0, digits)

(* The tokens of a date string (DateStringTokenizer::Scan): k is the kind   *)
(* of the token, n the value of a number or of a keyword, len the number of *)
(* characters read, c the character of a symbol or the type of a keyword.   *)
Token(k, n, len, c) == [k |-> k, n |-> n, len |-> len, c |-> c]

EndOfInput == Token("end", 0, 0, "")

MonthNames ==
  <<"jan", "feb", "mar", "apr", "may", "jun",
    "jul", "aug", "sep", "oct", "nov", "dec">>

\* the keywords that are no month name, with the hours of the zones
ZoneNames ==
  [ut |-> 0, utc |-> 0, z |-> 0, gmt |-> 0, cdt |-> -5, cst |-> -6,
   edt |-> -4, est |-> -5, mdt |-> -6, mst |-> -7, pdt |-> -7, pst |-> -8]

\* KeywordTable::Lookup of the word from i to j - 1: a month name is known by
\* its first three letters, every other keyword is the whole word
Keyword(s, i, j) ==
  LET len == j - i
      pre == ToLower(At(s, i))
               \o (IF len >= 2 THEN ToLower(At(s, i + 1)) ELSE "")
               \o (IF len >= 3 THEN ToLower(At(s, i + 2)) ELSE "")
  IN IF \E m \in 1..12 : MonthNames[m] = pre
     THEN Token("keyword", CHOOSE m \in 1..12 : MonthNames[m] = pre, len,
                "MONTH_NAME")
     ELSE IF len > 3 THEN Token("keyword", 0, len, "INVALID")
     ELSE IF pre = "am" THEN Token("keyword", 0, len, "AM_PM")
     ELSE IF pre = "pm" THEN Token("keyword", 12, len, "AM_PM")
     ELSE IF pre \in DOMAIN ZoneNames
     THEN Token("keyword", ZoneNames[pre], len, "TIME_ZONE_NAME")
     ELSE IF pre = "t" THEN Token("keyword", 0, len, "TIME_SEPARATOR")
     ELSE Token("keyword", 0, len, "INVALID")

\* SkipParentheses: the position after the parenthesised text i is in
RECURSIVE SkipParentheses(_, _, _)
SkipParentheses(s, i, balance) ==
  LET b == IF At(s, i) = ")" THEN balance - 1
           ELSE IF At(s, i) = "(" THEN balance + 1
           ELSE balance
  IN IF b > 0 /\ i + 1 <= Len(s) THEN SkipParentheses(s, i + 1, b) ELSE i + 1

\* the tokens of s from position i on
RECURSIVE Scan(_, _)
Scan(s, i) ==
  LET c == At(s, i)
      digits == RunEnd(s, i + 1, AsciiDigits)
      word == RunEnd(s, i + 1, WordChars)
  IN IF i > Len(s) THEN <<>>
     ELSE IF c \in AsciiDigits
     THEN <<Token("number", ReadUnsignedNumeral(s, i, digits, 9), digits - i,
                  "")>> \o Scan(s, digits)
     ELSE IF c \in {":", "-", "+", ".", ")"}
     THEN <<Token("symbol", 0, 1, c)>> \o Scan(s, i + 1)
     ELSE IF c \in WordChars THEN <<Keyword(s, i, word)>> \o Scan(s, word)
     ELSE IF c \in WhiteSpace
     THEN <<Token("space", 0, 1, "")>> \o Scan(s, i + 1)
     ELSE IF c = "("
     THEN <<Token("unknown", 0, 0, "")>> \o Scan(s, SkipParentheses(s, i, 0))
     ELSE <<Token("unknown", 0, 0, "")>> \o Scan(s, i + 1)

IsFixedNumber(t, len) == t.k = "number" /\ t.len = len
IsSymbol(t, c) == t.k = "symbol" /\ t.c = c
IsAsciiSign(t) == t.k = "symbol" /\ t.c \in {"+", "-"}
IsKeywordType(t, type) == t.k = "keyword" /\ t.c = type
IsKeywordZ(t) == IsKeywordType(t, "TIME_ZONE_NAME") /\ t.len = 1

\* ReadMilliseconds: the first three digits of a fraction of a second
ReadMilliseconds(t) ==
  IF t.len = 1 THEN t.n * 100
  ELSE IF t.len = 2 THEN t.n * 10
  ELSE IF t.len = 4 THEN t.n \div 10
  ELSE IF t.len = 5 THEN t.n \div 100
  ELSE IF t.len = 6 THEN t.n \div 1000
  ELSE IF t.len = 7 THEN t.n \div 10000
  ELSE IF t.len = 8 THEN t.n \div 100000
  ELSE IF t.len >= 9 THEN t.n \div 1000000
  ELSE t.n

\* What the parser has read: pos is the token it looks at, day the numbers
\* of the date and named its month name (0: none), time the numbers of the
\* time and hourOffset the hours of am or pm (-1: none), sign, hour and
\* minute the time zone (sign 0: none, -1 in hour or minute: not read),
\* read that a number was read, ok that the string is still a date.
Composers(pos, day) ==
  [pos |-> pos, day |-> day, named |-> 0, time |-> <<>>, hourOffset |-> -1,
   sign |-> 0, hour |-> -1, minute |-> -1, read |-> day # <<>>, ok |-> TRUE]

PadTo(s, n, x) == s \o [i \in 1..(n - Len(s)) |-> x]

\* TimeComposer::IsExpecting
TimeIsExpecting(time, n) ==
  \/ Len(time) \in {1, 2} /\ n \in 0..59
  \/ Len(time) = 3 /\ n \in 0..999

\* TimeZoneComposer::IsExpecting
ZoneIsExpecting(st, n) == st.hour # -1 /\ st.minute = -1 /\ n \in 0..59

\* one turn of the loop of the legacy parser
LegacyStep(tokens, st) ==
  LET T(i) == IF i \in 1..Len(tokens) THEN tokens[i] ELSE EndOfInput
      p == st.pos
      t == T(p)
      n == t.n
      fail == [st EXCEPT !.ok = FALSE]
      \* after a number that is no part of h:m: a "." is skipped
      q == IF IsSymbol(T(p + 1), ".") THEN p + 2 ELSE p + 1
      \* after a sign: the number that follows it, if any
      signed == T(p + 1).k = "number"
      r == IF signed THEN p + 2 ELSE p + 1
      m == IF signed THEN T(p + 1).n ELSE 0
      len == IF signed THEN T(p + 1).len ELSE 0
      sgn == IF t.c = "+" THEN 1 ELSE -1
  IN IF t.k = "number"
     THEN IF IsSymbol(T(p + 1), ":")
          THEN IF IsSymbol(T(p + 2), ":")
               THEN IF st.time # <<>> THEN fail
                    ELSE [st EXCEPT !.time = <<n, 0>>, !.pos = p + 3,
                                    !.read = TRUE]
               ELSE IF Len(st.time) >= 4 THEN fail
               ELSE [st EXCEPT !.time = Append(@, n), !.read = TRUE,
                       !.pos = IF IsSymbol(T(p + 2), ".") THEN p + 3 ELSE p + 2]
          ELSE IF IsSymbol(T(p + 1), ".") /\ TimeIsExpecting(st.time, n)
          THEN IF T(p + 2).k # "number" THEN fail
               ELSE [st EXCEPT
                       !.time = IF Len(@) = 3
                                THEN Append(@, n)
                                ELSE PadTo(Append(Append(@, n),
                                                  ReadMilliseconds(T(p + 2))),
                                           4, 0),
                       !.pos = p + 3, !.read = TRUE]
          ELSE IF ZoneIsExpecting(st, n)
          THEN [st EXCEPT !.minute = n, !.pos = q, !.read = TRUE]
          ELSE IF TimeIsExpecting(st.time, n)
          THEN IF \/ T(q).k \in {"end", "space"}
                  \/ IsKeywordZ(T(q))
                  \/ IsAsciiSign(T(q))
               THEN [st EXCEPT !.time = PadTo(Append(@, n), 4, 0),
                               !.pos = q, !.read = TRUE]
               ELSE fail
          ELSE IF Len(st.day) >= 3 THEN fail
          ELSE [st EXCEPT !.day = Append(@, n), !.read = TRUE,
                          !.pos = IF IsSymbol(T(q), "-") THEN q + 1 ELSE q]
     ELSE IF t.k = "keyword"
     THEN IF t.c = "AM_PM" /\ st.time # <<>>
          THEN [st EXCEPT !.hourOffset = n, !.pos = p + 1]
          ELSE IF t.c = "MONTH_NAME"
          THEN [st EXCEPT !.named = n,
                  !.pos = IF IsSymbol(T(p + 1), "-") THEN p + 2 ELSE p + 1]
          ELSE IF t.c = "TIME_ZONE_NAME" /\ st.read
          THEN [st EXCEPT !.sign = IF n < 0 THEN -1 ELSE 1,
                          !.hour = IF n < 0 THEN 0 - n ELSE n,
                          !.minute = 0, !.pos = p + 1]
          ELSE IF st.read \/ T(p + 1).k = "number" THEN fail
          ELSE [st EXCEPT !.pos = p + 1]
     ELSE IF /\ IsAsciiSign(t)
             /\ (st.hour = 0 /\ st.minute = 0) \/ st.time # <<>>
     THEN IF IsSymbol(T(r), ":")
          THEN [st EXCEPT !.sign = sgn, !.hour = m, !.minute = -1, !.pos = r,
                          !.read = TRUE]
          ELSE IF len \in {1, 2}
          THEN [st EXCEPT !.sign = sgn, !.hour = m, !.minute = 0, !.pos = r,
                          !.read = TRUE]
          ELSE IF len \in {3, 4}
          THEN [st EXCEPT !.sign = sgn, !.hour = m \div 100,
                          !.minute = m % 100, !.pos = r, !.read = TRUE]
          ELSE fail
     ELSE IF (IsAsciiSign(t) \/ IsSymbol(t, ")")) /\ st.read THEN fail
     ELSE [st EXCEPT !.pos = p + 1]

\* the legacy parser: the tokens are read until one fails or none is left
RECURSIVE Legacy(_, _)
Legacy(tokens, st) ==
  IF ~st.ok \/ st.pos > Len(tokens) THEN st
  ELSE Legacy(tokens, LegacyStep(tokens, st))

\* ParseES5DateTime: the date-time format of the language, [+-]YYYYYY or YYYY,
\* then -MM, then -DD, then T HH:mm, :ss, .sss and Z or an offset. The
\* outcome is "date" when the whole string has the format, "invalid" when
\* its time has not, and "legacy" when the legacy parser goes on from st.
ParseES5DateTime(tokens) ==
  LET T(i) == IF i \in 1..Len(tokens) THEN tokens[i] ELSE EndOfInput
      outcome(kind, st, iso) == [kind |-> kind, st |-> st, iso |-> iso]
      legacy(pos, day) == outcome("legacy", Composers(pos, day), FALSE)
      invalid == outcome("invalid", Composers(1, <<>>), FALSE)
      whole(day, t, sign, h, m) ==
        outcome("date",
                [Composers(Len(tokens) + 1, day) EXCEPT
                   !.time = t, !.sign = sign, !.hour = h, !.minute = m],
                TRUE)
      \* the time zone at i6, then the end of the string
      zonePart(i6, day, time, timeOk) ==
        LET isZ == IsKeywordZ(T(i6))
            hasOffset == ~isZ /\ IsAsciiSign(T(i6))
            hhmm == IsFixedNumber(T(i6 + 1), 4)
            zoneHour == IF hhmm THEN T(i6 + 1).n \div 100 ELSE T(i6 + 1).n
            zoneMinute == IF hhmm THEN T(i6 + 1).n % 100 ELSE T(i6 + 3).n
            zoneOk == hasOffset =>
                        IF hhmm THEN zoneHour \in 0..23 /\ zoneMinute \in 0..59
                        ELSE /\ IsFixedNumber(T(i6 + 1), 2)
                             /\ zoneHour \in 0..23
                             /\ IsSymbol(T(i6 + 2), ":")
                             /\ IsFixedNumber(T(i6 + 3), 2)
                             /\ zoneMinute \in 0..59
            i7 == IF isZ THEN i6 + 1
                  ELSE IF hasOffset THEN (IF hhmm THEN i6 + 2 ELSE i6 + 4)
                  ELSE i6
        IN IF ~(timeOk /\ zoneOk /\ T(i7).k = "end") THEN invalid
           ELSE IF isZ THEN whole(day, time, 1, 0, 0)
           ELSE IF hasOffset
           THEN whole(day, time, IF T(i6).c = "+" THEN 1 ELSE -1,
                      zoneHour, zoneMinute)
           ELSE whole(day, time, 0, -1, -1)
      \* the time after the separator at i3: hour, ":" and minute, then
      \* seconds and their fraction
      timePart(i3, day) ==
        LET hour == T(i3 + 1)
            is24 == hour.n = 24
            minute == T(i3 + 3)
            hasSecond == IsSymbol(T(i3 + 4), ":")
            second == T(i3 + 5)
            i5 == IF hasSecond THEN i3 + 6 ELSE i3 + 4
            hasMs == hasSecond /\ IsSymbol(T(i5), ".")
            ms == T(i5 + 1)
            time == <<hour.n, minute.n>>
                      \o (IF hasSecond THEN <<second.n>> ELSE <<>>)
                      \o (IF hasMs THEN <<ReadMilliseconds(ms)>> ELSE <<>>)
            timeOk == /\ IsFixedNumber(hour, 2) /\ hour.n \in 0..24
                      /\ IsSymbol(T(i3 + 2), ":")
                      /\ IsFixedNumber(minute, 2) /\ minute.n \in 0..59
                      /\ is24 => minute.n = 0
                      /\ hasSecond => /\ IsFixedNumber(second, 2)
                                      /\ second.n \in 0..59
                                      /\ is24 => second.n = 0
                      /\ hasMs => ms.k = "number" /\ (is24 => ms.n = 0)
        IN zonePart(IF hasMs THEN i5 + 2 ELSE i5, day, time, timeOk)
      \* the date after the year: "-" and month, "-" and day
      datePart(i1, year) ==
        LET hasMonth == IsSymbol(T(i1), "-")
            month == T(i1 + 1)
            i2 == IF hasMonth THEN i1 + 2 ELSE i1
            hasDay == hasMonth /\ IsSymbol(T(i2), "-")
            date == T(i2 + 1)
            i3 == IF hasDay THEN i2 + 2 ELSE i2
            day == <<year>> \o (IF hasMonth THEN <<month.n>> ELSE <<>>)
                            \o (IF hasDay THEN <<date.n>> ELSE <<>>)
        IN IF hasMonth /\ ~(IsFixedNumber(month, 2) /\ month.n \in 1..12)
           THEN legacy(i1 + 1, <<year>>)
           ELSE IF hasDay /\ ~(IsFixedNumber(date, 2) /\ date.n \in 1..31)
           THEN legacy(i2 + 1, <<year, month.n>>)
           ELSE IF ~IsKeywordType(T(i3), "TIME_SEPARATOR")
           THEN (IF T(i3).k = "end" THEN whole(day, <<>>, 1, 0, 0)
                 ELSE legacy(i3, day))
           ELSE timePart(i3, day)
      signed == IsAsciiSign(T(1))
  IN IF signed /\ ~IsFixedNumber(T(2), 6) THEN legacy(1, <<>>)
     ELSE IF signed /\ T(1).c = "-" /\ T(2).n = 0 THEN legacy(3, <<>>)
     ELSE IF ~signed /\ ~IsFixedNumber(T(1), 4) THEN legacy(1, <<>>)
     ELSE IF signed
     THEN datePart(3, IF T(1).c = "-" THEN 0 - T(2).n ELSE T(2).n)
     ELSE datePart(2, T(1).n)

\* DayComposer::Write: the year, month and day of the numbers read, none
\* (ok FALSE) when they are no date
DayWrite(st, iso) ==
  LET comp == PadTo(st.day, 3, 1)
      IsDay(x) == x \in 1..31
      ymd == IF st.named = 0
             THEN (IF iso \/ ~IsDay(comp[1])
                   THEN [year |-> comp[1], month |-> comp[2], day |-> comp[3]]
                   ELSE [year |-> comp[3], month |-> comp[1], day |-> comp[2]])
             ELSE (IF ~IsDay(comp[1])
                   THEN [year |-> comp[1], month |-> st.named, day |-> comp[2]]
                   ELSE [year |-> comp[2], month |-> st.named, day |-> comp[1]])
      year == IF ~iso /\ ymd.year \in 0..49 THEN ymd.year + 2000
              ELSE IF ~iso /\ ymd.year \in 50..99 THEN ymd.year + 1900
              ELSE ymd.year
  IN [ok |-> st.day # <<>> /\ ymd.month \in 1..12 /\ IsDay(ymd.day),
      year |-> year, month |-> ymd.month, day |-> ymd.day]

\* TimeComposer::Write: the seconds and milliseconds of the time read, none
\* (ok FALSE) when they are no time of the day
TimeWrite(st) ==
  LET comp == PadTo(st.time, 4, 0)
      hour == IF st.hourOffset # -1 THEN (comp[1] % 12) + st.hourOffset
              ELSE comp[1]
      ok == /\ st.hourOffset # -1 => comp[1] \in 0..12
            /\ \/ /\ hour \in 0..23 /\ comp[2] \in 0..59
                  /\ comp[3] \in 0..59 /\ comp[4] \in 0..999
               \/ hour = 24 /\ comp[2] = 0 /\ comp[3] = 0 /\ comp[4] = 0
  IN [ok |-> ok,
      seconds |-> IF ok THEN (hour * 60 + comp[2]) * 60 + comp[3] ELSE 0,
      ms |-> comp[4]]

\* The local time zones: the zones of the time zone database whose offset is
\* the same at every date, by name, with their minutes ahead of UTC
\* ("Etc/GMT+5" is five hours behind UTC). A zone whose offset changes with
\* the date (daylight saving time, historical offsets) is none of them.
LocalZones == ("UTC" :> 0) @@ ("Etc/GMT+5" :> -300) @@ ("Etc/GMT-9" :> 540)

\* TimeZoneComposer::Write: the seconds east of UTC of the zone read, those
\* of the local zone timeZone_ when none was read; hour * 3600 + minute * 60
\* is computed in 32 bits and is no offset above 2^31 - 1
ZoneWrite(st, timeZone_) ==
  LET hour == IF st.hour = -1 THEN 0 ELSE st.hour
      minute == IF st.minute = -1 THEN 0 ELSE st.minute
      low == ((hour % 65536) * 3600) + (minute * 60)
      high == (((hour \div 65536) * 3600) + (low \div 65536)) % 65536
      total == (high * 65536) + (low % 65536)
  IN IF st.sign = 0 THEN [ok |-> TRUE, seconds |-> LocalZones[timeZone_] * 60]
     ELSE IF high >= 32768 THEN [ok |-> FALSE, seconds |-> 0]
     ELSE [ok |-> TRUE, seconds |-> st.sign * total]

\* Date.parse(s) where the local time zone is timeZone_: the
\* instant as days since the epoch and milliseconds of the day, NaN when s
\* is no date or its instant is more than 100,000,000 days from the epoch
DateParse(s, timeZone_) ==
  LET value(day, time, zone) ==
        LET seconds == time.seconds - (zone.seconds % 86400)
            days == DaysFromCivil(day.year, day.month, 1) + day.day - 1
                      - (zone.seconds \div 86400) + (seconds \div 86400)
            ms == ((seconds % 86400) * 1000) + time.ms
        IN IF ~(day.ok /\ time.ok /\ zone.ok) THEN NaN
           ELSE IF day.year < -1000000 \/ day.year > 1000000 THEN NaN
           ELSE IF days < -100000000 \/ days > 100000000 THEN NaN
           ELSE IF days = 100000000 /\ ms > 0 THEN NaN
           ELSE [finite |-> TRUE, days |-> days, ms |-> ms]
      write(st, iso) ==
        IF ~st.ok THEN NaN
        ELSE value(DayWrite(st, iso), TimeWrite(st), ZoneWrite(st, timeZone_))
      parse(tokens, es5) ==
        IF es5.kind = "invalid" THEN NaN
        ELSE IF es5.kind = "legacy"
        THEN write(Legacy(tokens, es5.st), es5.iso)
        ELSE write(es5.st, es5.iso)
      read(tokens) == parse(tokens, ParseES5DateTime(tokens))
  IN read(Scan(s, 1))

\* toTs of sortNotes: the instant of n.updatedAt || n.createdAt, the epoch
\* when there is none or it does not parse
toTs(n, timeZone_) ==
  LET v == IF "updatedAt" \in DOMAIN n /\ n.updatedAt # "" THEN n.updatedAt
           ELSE IF "createdAt" \in DOMAIN n THEN n.createdAt
           ELSE ""
      value(ts) == IF ts.finite THEN Instant(ts.days, ts.ms) ELSE Instant(0, 0)
  IN value(IF v # "" THEN DateParse(v, timeZone_) ELSE NaN)

\* x placed into a list already in order: after every element the comparator
\* puts first, before the others (Array.prototype.sort is stable).
RECURSIVE InsertByTs(_, _, _)
InsertByTs(x, s, timeZone_) ==
  IF s = <<>> THEN <<x>>
  ELSE IF After(toTs(Head(s), timeZone_), toTs(x, timeZone_))
       THEN <<Head(s)>> \o InsertByTs(x, Tail(s), timeZone_)
  ELSE <<x>> \o s

RECURSIVE StableSort(_, _)
StableSort(s, timeZone_) ==
  IF s = <<>> THEN <<>>
  ELSE InsertByTs(Head(s), StableSort(Tail(s), timeZone_), timeZone_)

\* sortNotes(notes) where the local time zone is timeZone_
sortNotes(notes_, timeZone_) == StableSort(notes_, timeZone_)

(***************************************************************************)
(* Notes API client.                                                       *)
(***************************************************************************)
\* process.env.REACT_APP_API_BASE || process.env.REACT_APP_BACKEND_URL || ""
\* (a variable that is not set reads as "")
API_BASE(env) ==
  IF env.REACT_APP_API_BASE # "" THEN env.REACT_APP_API_BASE
  ELSE IF env.REACT_APP_BACKEND_URL # "" THEN env.REACT_APP_BACKEND_URL
  ELSE ""

\* the environments the application is built in
Envs ==
  { [REACT_APP_API_BASE |-> "", REACT_APP_BACKEND_URL |-> ""],
    [REACT_APP_API_BASE |-> "https://api.example",
     REACT_APP_BACKEND_URL |-> "https://backend.example"] }

\* A response fetch resolves with: ok and status, the content-type header,
\* and what res.json() and res.text() yield (only one of the two is read).
Response(ok, status, contentType, json, text) ==
  [rejects |-> FALSE, ok |-> ok, status |-> status,
   contentType |-> contentType, json |-> json, text |-> text]

\* fetch rejects: the TypeError of a network failure
FetchRejects(message) == [rejects |-> TRUE, message |-> message]

\* a body res.json() rejects with a SyntaxError for
JInvalid(message) == [t |-> "invalid", v |-> message]

OkJson(body) == Response(TRUE, 200, "application/json", body, "(json)")

\* haystack.includes(needle)
Includes(haystack, needle) ==
  \E k \in 1..(Len(haystack) - Len(needle) + 1) :
    SubSeq(haystack, k, k + Len(needle) - 1) = needle

\* contentType.includes("application/json")
IncludesJson(contentType) == Includes(contentType, "application/json")

parseJsonOrText(res) ==
  IF IncludesJson(res.contentType)
  THEN (IF res.json.t = "invalid" THEN Throw(res.json.v) ELSE Return(res.json))
  ELSE Return(JStr(res.text))

unwrapDataNever(payload) == payload

unwrapData(payload) ==
  IF payload.t = "object" /\ "data" \in DOMAIN payload.v
  THEN payload.v["data"]
  ELSE payload

\* toUiNote(raw): the note, or the TypeError of a field that has no string
toUiNote(raw) ==
  IF raw.t \notin {"object", "array"}
  THEN Return([id |-> "", title |-> <<>>, content |-> ""])
  ELSE
    LET id == String(Nullish(Get(raw, "id"),
                     Nullish(Get(raw, "_id"),
                     Nullish(Get(raw, "noteId"), JStr("")))))
        title == StringOfTitle(Nullish(Get(raw, "title"),
                                    Nullish(Get(raw, "name"), JStr(<<>>))))
        content == String(Nullish(Get(raw, "content"),
                          Nullish(Get(raw, "body"),
                          Nullish(Get(raw, "text"), JStr("")))))
        updatedAt == Nullish(Get(raw, "updatedAt"),
                     Nullish(Get(raw, "updated_at"),
                     Nullish(Get(raw, "modifiedAt"), Get(raw, "modified_at"))))
        createdAt == Nullish(Get(raw, "createdAt"), Get(raw, "created_at"))
        updated == IF Truthy(updatedAt) THEN String(updatedAt) ELSE Return("")
        created == IF Truthy(createdAt) THEN String(createdAt) ELSE Return("")
        note(i, t, c, u, k) ==
          [id |-> i, title |-> Trim(t), content |-> c]
            @@ (IF Truthy(updatedAt) THEN "updatedAt" :> u ELSE <<>>)
            @@ (IF Truthy(createdAt) THEN "createdAt" :> k ELSE <<>>)
    IN IF \/ id.throw \/ title.throw \/ content.throw
          \/ updated.throw \/ created.throw
       THEN Throw(TypeErrorMessage)
       ELSE Return(note(id.value, title.value, content.value,
                        updated.value, created.value))

ConfigMessage ==
  "Backend base URL is not configured. Set REACT_APP_API_BASE or REACT_APP_BACKEND_URL."

\* request(path, init), for the base URL of the build and for what fetch
\* settles with
request(apiBase_, res) ==
  IF apiBase_ = "" THEN Throw(ConfigMessage)
  ELSE IF res.rejects THEN Throw(res.message)
  ELSE
    LET parsed == parseJsonOrText(res)
        payload == parsed.value
        m == Get(payload, "message")
        e == Get(payload, "error")
        field == IF Truthy(m) THEN m ELSE e
        \* new Error(message) converts its message into a string
        error_(message) == IF message.throw THEN message
                           ELSE Throw(message.value)
    IN IF parsed.throw THEN parsed
       ELSE IF ~res.ok
       THEN IF payload.t = "string" THEN Throw(payload.v)
            ELSE IF Truthy(payload) /\ Truthy(field)
            THEN error_(String(field))
            ELSE Throw("Request failed (" \o ToString(res.status) \o ")")
       ELSE Return(payload)

\* items.map(toUiNote).filter(n => n.id): every element is normalized, and
\* the TypeError of one of them is the outcome
RECURSIVE MapFilterNotes(_)
MapFilterNotes(items) ==
  IF items = <<>> THEN Return(<<>>)
  ELSE LET n == toUiNote(Head(items))
           rest == MapFilterNotes(Tail(items))
       IN IF n.throw THEN n
          ELSE IF rest.throw THEN rest
          ELSE Return((IF n.value.id # "" THEN <<n.value>> ELSE <<>>)
                      \o rest.value)

listNotes(apiBase_, res) ==
  LET r == request(apiBase_, res)
      unwrapped == unwrapData(r.value)
      items == IF unwrapped.t = "array" THEN unwrapped.v
               ELSE IF Get(unwrapped, "items").t = "array" THEN Get(unwrapped, "items").v
               ELSE IF Get(unwrapped, "notes").t = "array" THEN Get(unwrapped, "notes").v
               ELSE <<>>
  IN IF r.throw THEN r ELSE MapFilterNotes(items)

createNote(apiBase_, res) ==
  LET r == request(apiBase_, res)
  IN IF r.throw THEN r ELSE toUiNote(unwrapData(r.value))

updateNote(apiBase_, res) ==
  LET r == request(apiBase_, res)
  IN IF r.throw THEN r ELSE toUiNote(unwrapData(r.value))

deleteNote(apiBase_, res) ==
  LET r == request(apiBase_, res)
  IN IF r.throw THEN r ELSE Return(JUndefined)

(***************************************************************************)
(* The remote API: the responses the model lets the server give.           *)
(***************************************************************************)
\* the timestamps of the servers: days (a date with no time is the start of
\* the day in UTC), one of them before the epoch
T_OLD == "1969-12-31"
T_MID == "1970-01-02"
T_NEW == "1970-01-03"
\* the server stamps an updated note with T_NEW
ServerStamps == {T_NEW}

IdNames == <<"n1", "n2", "n3", "n4", "n5">>

Ids(notes_) == {notes_[i].id : i \in 1..Len(notes_)}

\* the id the server assigns: the first one no note of the collection has
FreshId(notes_) ==
  IdNames[CHOOSE i \in 1..Len(IdNames) :
            /\ IdNames[i] \notin Ids(notes_)
            /\ \A j \in 1..(i - 1) : IdNames[j] \in Ids(notes_)]

RawNote(id, title, content, stamp) ==
  LET base == ("id" :> JStr(id)) @@ ("title" :> JStr(title))
              @@ ("content" :> JStr(content))
  IN JObj(IF stamp # "" THEN base @@ ("updatedAt" :> JStr(stamp)) ELSE base)

SyntaxErrorMessage == "Unexpected end of JSON input"

\* the server's answer to a title that breaks the title rule
Refusal ==
  Response(FALSE, 422, "application/json",
           JObj("error" :> JStr("title too long")), "(json)")

\* the failures: a JSON body with an error field, an empty body, an empty
\* body sent as JSON, and no response at all
FailResponses ==
  { Refusal,
    Response(FALSE, 500, "text/plain", JUndefined, ""),
    Response(FALSE, 502, "application/json", JInvalid(SyntaxErrorMessage), ""),
    FetchRejects("Failed to fetch") }

\* the failures of POST, PUT and DELETE: the two bodies of FailResponses that
\* request() reads without an exception
OpFailures ==
  { Refusal, Response(FALSE, 500, "text/plain", JUndefined, "") }

\* GET /notes
ListResponses ==
  { OkJson(JArr(<<>>)),
    OkJson(JArr(<<
      JObj(("id" :> JStr("n1")) @@ ("title" :> JStr(<<"A">>))
           @@ ("content" :> JStr("x"))),
      JObj(("id" :> JStr("n2")) @@ ("title" :> JStr(<<"B", " ">>))
           @@ ("content" :> JStr("x")) @@ ("updatedAt" :> JStr(T_MID))) >>)),
    OkJson(JObj("data" :> JObj("items" :> JArr(<<
      JObj(("_id" :> JStr("n1")) @@ ("name" :> JStr(<<"A">>))
           @@ ("body" :> JStr("x"))) >>)))),
    OkJson(JObj("notes" :> JArr(<<
      JObj("title" :> JStr(<<"no id">>)),
      JObj(("noteId" :> JStr("n2")) @@ ("title" :> JStr(<<"B">>))
           @@ ("text" :> JStr("x")) @@ ("modified_at" :> JStr(T_MID))) >>))),
    OkJson(JObj("count" :> JNum(0))) } \cup FailResponses

\* the server applies the title rule to the requests it gets
Accepts(req) == Len(req.title) <= MaxTitleLen

\* POST /notes with body {title, content}: the created note, which the server
\* does not stamp (bare, or under data), or a success response that is no
\* note; a failure when the collection is full
CreateResponses(req) ==
  IF ~Accepts(req) THEN {Refusal}
  ELSE IF Len(req.notes) < MaxNotes
  THEN { OkJson(RawNote(FreshId(req.notes), req.title, req.content, "")),
         OkJson(JObj("data" :> RawNote(FreshId(req.notes), req.title,
                                       req.content, ""))),
         Response(TRUE, 201, "text/plain", JUndefined, "Created") }
       \cup OpFailures
  ELSE OpFailures

\* PUT /notes/{id} with body {title, content}: the updated note
UpdateResponses(req) ==
  IF Accepts(req)
  THEN { OkJson(RawNote(req.id, req.title, req.content, st)) :
           st \in ServerStamps }
       \cup OpFailures
  ELSE {Refusal}

\* DELETE /notes/{id}: the body is ignored
DeleteResponses ==
  { Response(TRUE, 204, "text/plain", JUndefined, "") } \cup OpFailures

(***************************************************************************)
(* What the user can type.                                                 *)
(***************************************************************************)
TitleInputs ==
  { <<" ", "U+00A0">>,
    <<" ">> \o Rep("c", MaxTitleLen),
    Rep("d", MaxTitleLen + 1) }

ContentInputs == {"x"}

(***************************************************************************)
(* App: the component's state.                                             *)
(***************************************************************************)
VARIABLES
  notes,       \* useState([]): the collection, a sequence of UI notes
  selectedId,  \* useState(null)
  mode,        \* useState("view"): "view" | "edit" | "create"
  draft,       \* useState(EMPTY_DRAFT): [title, content]
  touched,     \* useState(false)
  isBusy,      \* useState(false)
  error,       \* useState("")
  status,      \* useState("")
  inflight,    \* the adapter calls awaited, each with what its handler captured
  timers,      \* the number of pending window.setTimeout callbacks
               \* (each is () => setStatus(""))
  mounted,     \* let mounted = true: the local of the initial-load effect
  event,       \* the event or continuation that ran last
  call,        \* a call of an adapter function or of sortNotes made on its
               \* own: [fn, arg, done, result]
  apiBase,     \* const API_BASE: the base URL the build was given
  loadEffect,  \* the initial-load effect: "scheduled" by the first commit,
               \* then "flushed"
  draftEffect, \* the draft-sync effect of the last commit: "scheduled" while
               \* its updates of draft and touched are still to come,
               \* "dropped" when the component was unmounted before they came
  timeZone     \* the local time zone of the browser: one of LocalZones

vars == <<notes, selectedId, mode, draft, touched, isBusy, error, status,
          inflight, timers, mounted, event, call, apiBase, loadEffect,
          draftEffect, timeZone>>

FirstWithId(notes_, id) ==
  LET I == {i \in 1..Len(notes_) : notes_[i].id = id}
  IN IF I = {} THEN NoNote
     ELSE notes_[CHOOSE i \in I : \A j \in I : i <= j]

\* useMemo: selectedNote of a render with these notes and this selectedId
SelectedNoteOf(notes_, selectedId_) ==
  IF selectedId_ = Null \/ selectedId_ = "" THEN NoNote
  ELSE FirstWithId(notes_, selectedId_)

selectedNote == SelectedNoteOf(notes, selectedId)

TitleErrorNoRequired(draft_, touched_) ==
  IF ~touched_ THEN ""
  ELSE IF Len(Trim(draft_.title)) > MaxTitleLen
       THEN "Title must be 80 characters or less."
       ELSE ""

\* useMemo: titleError of a render with this draft and this touched flag
TitleErrorOf(draft_, touched_) ==
  IF ~touched_ THEN ""
  ELSE IF Trim(draft_.title) = <<>> THEN "Title is required."
  ELSE IF Len(Trim(draft_.title)) > MaxTitleLen
       THEN "Title must be 80 characters or less."
       ELSE ""

titleError == TitleErrorOf(draft, touched)

canSaveWhileBusy == titleError = "" /\ Trim(draft.title) # <<>>

canSave == titleError = "" /\ Trim(draft.title) # <<>> /\ ~isBusy

\* disabled={isBusy} of the New, Edit, Cancel and Del buttons
ButtonDisabled == isBusy

\* the editor form (title, content, Cancel, Save) is rendered
FormShown == mode # "view"

DraftOf(note) == [title |-> note.title, content |-> note.content]

\* selectedNote?.id
OptId(note) == IF note = NoNote THEN "<undefined>" ELSE note.id

\* The draft-sync effect updates the state after a render with notes n,
\* selectedId s and mode m: mode or selectedNote?.id differs from the previous
\* render's, and the effect does not return early.
DraftSyncRuns(n, s, m) ==
  /\ <<m, OptId(SelectedNoteOf(n, s))>> # <<mode, OptId(selectedNote)>>
  /\ m = "view"
  /\ SelectedNoteOf(n, s) # NoNote

\* The draft and the touched flag once the draft-sync effect has run after a
\* render with notes n, selectedId s, mode m, draft d and touched t.
DraftSync(n, s, m, d, t) ==
  LET run == DraftSyncRuns(n, s, m)
  IN [draft |-> IF run THEN DraftOf(SelectedNoteOf(n, s)) ELSE d,
      touched |-> IF run THEN FALSE ELSE t]

\* React runs the effects of a commit before it renders again: the updates of
\* a scheduled draft-sync effect are queued behind the updates d and t of the
\* step that causes the render, and win. (The effect is scheduled in view mode
\* with a note selected, and that note is selected until it runs.)
FlushOver(d, t) ==
  IF draftEffect = "scheduled"
  THEN [draft |-> DraftOf(selectedNote), touched |-> FALSE]
  ELSE [draft |-> d, touched |-> t]

\* a render the step causes without setting draft or touched
FlushDraftEffect ==
  /\ draft' = FlushOver(draft, touched).draft
  /\ touched' = FlushOver(draft, touched).touched
  /\ draftEffect' = "flushed"

\* The render an event handler causes (all the state updates of the step are
\* batched) and its effects, which React runs with the commit.
Render(n, s, m, d, t) ==
  /\ notes' = n
  /\ selectedId' = s
  /\ mode' = m
  /\ draft' = DraftSync(n, s, m, FlushOver(d, t).draft,
                        FlushOver(d, t).touched).draft
  /\ touched' = DraftSync(n, s, m, FlushOver(d, t).draft,
                          FlushOver(d, t).touched).touched
  /\ draftEffect' = "flushed"

\* The render a continuation causes: React runs its effects later, and an
\* event may come first.
RenderLater(n, s, m, d, t) ==
  /\ notes' = n
  /\ selectedId' = s
  /\ mode' = m
  /\ draft' = FlushOver(d, t).draft
  /\ touched' = FlushOver(d, t).touched
  /\ draftEffect' = IF DraftSyncRuns(n, s, m) THEN "scheduled" ELSE "flushed"

\* showStatus._t as the calling handler reads it: showStatus is a new function
\* object in every render and no handler calls its render's showStatus twice,
\* so the property has never been assigned on the object that is called.
\* A timer handle: undefined, or the id window.setTimeout returned, whose
\* callback is still pending or has run.
NoTimer == [defined |-> FALSE, pending |-> FALSE]
showStatus_t == NoTimer

\* window.clearTimeout(handle): the pending callbacks left. Undefined and
\* the handle of a timer that has fired cancel nothing.
ClearTimeout(timers_, handle) ==
  IF handle.defined /\ handle.pending THEN timers_ - 1 ELSE timers_

showStatus(msg) ==
  /\ status' = msg
  /\ timers' = ClearTimeout(timers, showStatus_t) + 1

\* no function is called on its own while the component runs
NoCall == [fn |-> "none"]

Remove(seq, i) == SubSeq(seq, 1, i - 1) \o SubSeq(seq, i + 1, Len(seq))

(***************************************************************************)
(* Init: the state the first render commits, its effects not yet run.      *)
(***************************************************************************)
\* the time zone of the browser the component runs in: UTC (the calls of
\* sortNotes on their own are made in the zones of AdapterTimeZones)
TimeZones == {"UTC"}

Init ==
  /\ notes = <<>>
  /\ selectedId = Null
  /\ mode = "view"
  /\ draft = EMPTY_DRAFT
  /\ touched = FALSE
  /\ isBusy = FALSE
  /\ error = ""
  /\ status = ""
  /\ inflight = <<>>
  /\ timers = 0
  /\ mounted = TRUE
  /\ event = "render"
  /\ call = NoCall
  /\ apiBase \in {API_BASE(env) : env \in Envs}
  /\ loadEffect = "scheduled"
  /\ draftEffect = "flushed"
  /\ timeZone \in TimeZones

\* what a handler's closure holds when it awaits an adapter call
Request(op, id, title) ==
  [op |-> op, id |-> id, title |-> title, content |-> draft.content,
   notes |-> notes, selectedId |-> selectedId]

\* request() throws before it fetches: the rejection of the call just made
\* is handled before any other event
Rejecting == apiBase = "" /\ inflight # <<>>

\* the component is mounted, its effects have run and no microtask is queued
Ready == mounted /\ loadEffect = "flushed" /\ ~Rejecting

\* The initial-load effect: load() up to its await. React flushes it after
\* the first commit, and before it renders again.
RunLoadEffect ==
  /\ loadEffect = "scheduled"
  /\ loadEffect' = "flushed"
  /\ isBusy' = TRUE
  /\ error' = ""
  /\ status' = "Loading notes..."
  /\ inflight' = Append(inflight, Request("listNotes", Null, <<>>))
  /\ event' = "mount"
  /\ FlushDraftEffect
  /\ UNCHANGED <<notes, selectedId, mode, timers, mounted, call, apiBase,
                 timeZone>>

(***************************************************************************)
(* The user's events.                                                      *)
(***************************************************************************)
\* "+ New"
HandleCreate ==
  /\ Ready \/ (loadEffect = "scheduled" /\ event = "render")
  /\ ~ButtonDisabled
  /\ error' = ""
  /\ Render(notes, selectedId, "create", EMPTY_DRAFT, FALSE)
  /\ event' = "create"
  /\ UNCHANGED <<isBusy, status, inflight, timers, mounted,
                 call, apiBase, loadEffect, timeZone>>

\* a click on a row of the list (no render comes of updates that set the
\* values the state has)
HandleSelect(id) ==
  /\ Ready
  /\ id \in Ids(notes)
  /\ error' = ""
  /\ IF <<id, "view", FALSE, "">> = <<selectedId, mode, touched, error>>
     THEN UNCHANGED <<notes, selectedId, mode, draft, touched, draftEffect>>
     ELSE Render(notes, id, "view", draft, FALSE)
  /\ event' = "select"
  /\ UNCHANGED <<isBusy, status, inflight, timers, mounted,
                 call, apiBase, loadEffect, timeZone>>

\* "Edit"
HandleStartEdit ==
  /\ Ready
  /\ mode = "view"
  /\ selectedNote # NoNote
  /\ ~ButtonDisabled
  /\ error' = ""
  /\ Render(notes, selectedId, "edit", DraftOf(selectedNote), FALSE)
  /\ event' = "edit"
  /\ UNCHANGED <<isBusy, status, inflight, timers, mounted,
                 call, apiBase, loadEffect, timeZone>>

\* "Cancel"
HandleCancel ==
  /\ Ready
  /\ FormShown
  /\ ~ButtonDisabled
  /\ error' = ""
  /\ Render(notes, selectedId, "view",
            IF selectedNote # NoNote THEN DraftOf(selectedNote) ELSE EMPTY_DRAFT,
            FALSE)
  /\ event' = "cancel"
  /\ UNCHANGED <<isBusy, status, inflight, timers, mounted,
                 call, apiBase, loadEffect, timeZone>>

\* onChange of the title input
ChangeTitle(t) ==
  /\ Ready
  /\ FormShown
  /\ Len(t) <= InputMaxLength
  /\ draft' = [draft EXCEPT !.title = t]
  /\ event' = "input"
  /\ UNCHANGED <<notes, selectedId, mode, touched, isBusy, error, status,
                 inflight, timers, mounted, call, apiBase, loadEffect,
                 draftEffect, timeZone>>

\* onChange of the content textarea
ChangeContent(c) ==
  /\ Ready
  /\ FormShown
  /\ draft' = [draft EXCEPT !.content = c]
  /\ event' = "input"
  /\ UNCHANGED <<notes, selectedId, mode, touched, isBusy, error, status,
                 inflight, timers, mounted, call, apiBase, loadEffect,
                 draftEffect, timeZone>>

\* onBlur of the title input
BlurTitle ==
  /\ Ready
  /\ FormShown
  /\ touched' = TRUE
  /\ event' = "input"
  /\ UNCHANGED <<notes, selectedId, mode, draft, isBusy, error, status,
                 inflight, timers, mounted, call, apiBase, loadEffect,
                 draftEffect, timeZone>>

\* handleSave up to its await (or its return)
HandleSave ==
  LET title == Trim(draft.title)
  IN /\ error' = ""
     /\ Render(notes, selectedId, mode, draft, TRUE)
     /\ IF title = <<>>
        THEN UNCHANGED <<isBusy, inflight>>
        ELSE IF mode = "create"
        THEN /\ isBusy' = TRUE
             /\ inflight' = Append(inflight, Request("createNote", Null, title))
        ELSE IF mode = "edit" /\ selectedNote # NoNote
        THEN /\ isBusy' = TRUE
             /\ inflight' = Append(inflight,
                              Request("updateNote", selectedNote.id, title))
        ELSE /\ isBusy' = FALSE
             /\ UNCHANGED inflight
     /\ UNCHANGED <<status, timers, mounted, call, apiBase, loadEffect,
                    timeZone>>

\* "Save" (disabled={!canSave})
ClickSave ==
  /\ Ready
  /\ FormShown
  /\ canSave
  /\ HandleSave
  /\ event' = "save"

\* onSubmit of the form (Enter in the title input)
SubmitForm ==
  /\ Ready
  /\ FormShown
  /\ IF canSave
     THEN HandleSave
     ELSE /\ touched' = TRUE
          /\ UNCHANGED <<notes, selectedId, mode, draft, isBusy, error, status,
                         inflight, timers, mounted, call, apiBase, loadEffect,
                         draftEffect, timeZone>>
  /\ event' = "submit"

ConfirmIgnored(ok) == TRUE

\* if (!ok) return
Confirmed(ok) == ok

\* "Del" on a row: handleDelete up to its await (or its return); ok is what
\* window.confirm returns
HandleDelete(id, ok) ==
  /\ Ready
  /\ ~ButtonDisabled
  /\ id \in Ids(notes)
  /\ error' = ""
  /\ IF Confirmed(ok)
     THEN /\ isBusy' = TRUE
          /\ inflight' = Append(inflight, Request("deleteNote", id, <<>>))
     ELSE UNCHANGED <<isBusy, inflight>>
  /\ IF Confirmed(ok) \/ error # ""
     THEN FlushDraftEffect
     ELSE UNCHANGED <<draft, touched, draftEffect>>
  /\ event' = IF ok THEN "deleteYes" ELSE "deleteNo"
  /\ UNCHANGED <<notes, selectedId, mode, status, timers,
                 mounted, call, apiBase, loadEffect, timeZone>>

(***************************************************************************)
(* The continuations of the asynchronous handlers.                         *)
(***************************************************************************)
AlwaysMounted(mounted_) == TRUE

\* if (!mounted) return; ... finally { if (mounted) ... }
StillMounted(mounted_) == mounted_

\* load() after its await, for one response to GET /notes
LoadResume(i, res) ==
  /\ i \in 1..Len(inflight)
  /\ inflight[i].op = "listNotes"
  /\ res \in ListResponses
  /\ LET items == listNotes(apiBase, res)
         sorted == sortNotes(items.value, timeZone)
     IN /\ event' = IF items.throw THEN "loadRejected" ELSE "loadResolved"
        /\ IF ~StillMounted(mounted)
           THEN UNCHANGED <<notes, selectedId, mode, draft, touched, error,
                            status, isBusy, draftEffect>>
           ELSE /\ IF items.throw
                   THEN /\ error' = items.message
                        /\ FlushDraftEffect
                        /\ UNCHANGED <<notes, selectedId, mode>>
                   ELSE /\ RenderLater(sorted,
                                       IF Len(sorted) > 0 THEN sorted[1].id
                                       ELSE selectedId,
                                       mode, draft, touched)
                        /\ UNCHANGED error
                /\ status' = ""
                /\ isBusy' = FALSE
  /\ inflight' = Remove(inflight, i)
  /\ UNCHANGED <<timers, mounted, call, apiBase, loadEffect, timeZone>>

SaveCatchResetsMode(message) ==
  /\ error' = message
  /\ RenderLater(notes, selectedId, "view", draft, touched)
  /\ UNCHANGED <<status, timers>>

\* catch (e) of handleSave
SaveCatch(message) ==
  /\ error' = message
  /\ FlushDraftEffect
  /\ UNCHANGED <<notes, selectedId, mode, status, timers>>

SaveCreatedUnsorted(req, created) ==
  /\ RenderLater(<<created>> \o req.notes, created.id, "view", draft, touched)
  /\ showStatus("Saved.")
  /\ UNCHANGED error

\* the create branch of handleSave after its await
SaveCreated(req, created) ==
  LET nextNotes == sortNotes(<<created>> \o req.notes, timeZone)
  IN /\ RenderLater(nextNotes, created.id, "view", draft, touched)
     /\ showStatus("Saved.")
     /\ UNCHANGED error

\* the edit branch of handleSave after its await
SaveUpdated(req, updated) ==
  LET nextNotes == sortNotes([k \in 1..Len(req.notes) |->
                                IF req.notes[k].id = updated.id
                                THEN updated ELSE req.notes[k]], timeZone)
  IN /\ RenderLater(nextNotes, selectedId, "view", draft, touched)
     /\ showStatus("Updated.")
     /\ UNCHANGED error

\* handleSave after its await, for one response to POST or PUT
SaveResume(i, res) ==
  /\ mounted
  /\ i \in 1..Len(inflight)
  /\ inflight[i].op \in {"createNote", "updateNote"}
  /\ LET req == inflight[i]
         out == IF req.op = "createNote" THEN createNote(apiBase, res)
                ELSE updateNote(apiBase, res)
     IN /\ res \in (IF req.op = "createNote" THEN CreateResponses(req)
                    ELSE UpdateResponses(req))
        /\ out.throw \/ timers < MaxTimers
        /\ IF out.throw THEN SaveCatch(out.message)
           ELSE IF req.op = "createNote" THEN SaveCreated(req, out.value)
           ELSE SaveUpdated(req, out.value)
        /\ event' = IF out.throw THEN "saveRejected" ELSE "saveResolved"
  /\ isBusy' = FALSE
  /\ inflight' = Remove(inflight, i)
  /\ UNCHANGED <<mounted, call, apiBase, loadEffect, timeZone>>

NextAlwaysNull(remaining) == Null

\* remaining[0]?.id ?? null
NextSelection(remaining) ==
  IF Len(remaining) > 0 THEN remaining[1].id ELSE Null

\* catch (e) of handleDelete
DeleteCatch(message) ==
  /\ error' = message
  /\ FlushDraftEffect
  /\ UNCHANGED <<notes, selectedId, mode, status, timers>>

\* the try block of handleDelete after its await
Deleted(req) ==
  LET remaining == SelectSeq(req.notes, LAMBDA n : n.id # req.id)
      next == NextSelection(remaining)
  IN /\ IF req.selectedId = req.id
        THEN RenderLater(sortNotes(remaining, timeZone), next, "view",
                         IF next # Null /\ next # ""
                         THEN DraftOf(remaining[1]) ELSE EMPTY_DRAFT,
                         touched)
        ELSE RenderLater(sortNotes(remaining, timeZone), selectedId, mode,
                         draft, touched)
     /\ showStatus("Deleted.")
     /\ UNCHANGED error

\* handleDelete after its await, for one response to DELETE
DeleteResume(i, res) ==
  /\ mounted
  /\ i \in 1..Len(inflight)
  /\ inflight[i].op = "deleteNote"
  /\ res \in DeleteResponses
  /\ LET req == inflight[i]
         out == deleteNote(apiBase, res)
     IN /\ out.throw \/ timers < MaxTimers
        /\ IF out.throw THEN DeleteCatch(out.message) ELSE Deleted(req)
        /\ event' = IF out.throw THEN "deleteRejected" ELSE "deleteResolved"
  /\ isBusy' = FALSE
  /\ inflight' = Remove(inflight, i)
  /\ UNCHANGED <<mounted, call, apiBase, loadEffect, timeZone>>

\* The draft-sync effect of a continuation's render, run on its own: the
\* render was in view mode with a note selected.
RunDraftEffect ==
  /\ draftEffect = "scheduled"
  /\ draftEffect' = "flushed"
  /\ draft' = DraftOf(selectedNote)
  /\ touched' = FALSE
  /\ event' = "effect"
  /\ UNCHANGED <<notes, selectedId, mode, isBusy, error, status, inflight,
                 timers, mounted, call, apiBase, loadEffect, timeZone>>

\* the callback of a status timer: () => setStatus(""); no cleanup clears
\* the timer, and React drops the update of an unmounted component
TimerFire ==
  /\ ~Rejecting
  /\ timers > 0
  /\ status' = IF mounted THEN "" ELSE status
  /\ timers' = timers - 1
  /\ event' = "timer"
  /\ IF status' # status
     THEN FlushDraftEffect
     ELSE UNCHANGED <<draft, touched, draftEffect>>
  /\ UNCHANGED <<notes, selectedId, mode, isBusy, error,
                 inflight, mounted, call, apiBase, loadEffect, timeZone>>

\* the cleanup of the initial-load effect, run when the component is unmounted
\* (the updates of a draft-sync effect still scheduled are dropped)
Unmount ==
  /\ Ready
  /\ mounted' = FALSE
  /\ draftEffect' = IF draftEffect = "scheduled" THEN "dropped" ELSE draftEffect
  /\ event' = "unmount"
  /\ UNCHANGED <<notes, selectedId, mode, draft, touched, isBusy, error,
                 status, inflight, timers, call, apiBase, loadEffect,
                 timeZone>>

\* handleSave or handleDelete after its await once the component is unmounted:
\* React drops the state updates of an unmounted component, and showStatus
\* still starts its timer
ResumeUnmounted(i, res) ==
  /\ ~mounted
  /\ i \in 1..Len(inflight)
  /\ inflight[i].op # "listNotes"
  /\ LET req == inflight[i]
         out == IF req.op = "createNote" THEN createNote(apiBase, res)
                ELSE IF req.op = "updateNote" THEN updateNote(apiBase, res)
                ELSE deleteNote(apiBase, res)
     IN /\ res \in (IF req.op = "createNote" THEN CreateResponses(req)
                    ELSE IF req.op = "updateNote" THEN UpdateResponses(req)
                    ELSE DeleteResponses)
        /\ out.throw \/ timers < MaxTimers
        /\ timers' = IF out.throw THEN timers
                     ELSE ClearTimeout(timers, showStatus_t) + 1
  /\ inflight' = Remove(inflight, i)
  /\ event' = "dropped"
  /\ UNCHANGED <<notes, selectedId, mode, draft, touched, isBusy, error,
                 status, mounted, call, apiBase, loadEffect, draftEffect,
                 timeZone>>

Next ==
  \/ RunLoadEffect
  \/ HandleCreate
  \/ \E id \in Ids(notes) : HandleSelect(id)
  \/ HandleStartEdit
  \/ HandleCancel
  \/ \E t \in TitleInputs : ChangeTitle(t)
  \/ \E c \in ContentInputs : ChangeContent(c)
  \/ BlurTitle
  \/ ClickSave
  \/ SubmitForm
  \/ \E id \in Ids(notes), ok \in BOOLEAN : HandleDelete(id, ok)
  \/ \E i \in 1..Len(inflight), res \in ListResponses : LoadResume(i, res)
  \/ \E i \in 1..Len(inflight) :
       \E res \in CreateResponses(inflight[i]) \cup UpdateResponses(inflight[i]) :
         SaveResume(i, res)
  \/ \E i \in 1..Len(inflight), res \in DeleteResponses : DeleteResume(i, res)
  \/ RunDraftEffect
  \/ TimerFire
  \/ Unmount
  \/ \E i \in 1..Len(inflight) :
       \E res \in CreateResponses(inflight[i]) \cup UpdateResponses(inflight[i])
                     \cup DeleteResponses :
         ResumeUnmounted(i, res)

Spec == Init /\ [][Next]_vars

(***************************************************************************)
(* The adapter functions and sortNotes, each called on its own with an     *)
(* input drawn from a bounded set.                                          *)
(***************************************************************************)
\* the longest collection sortNotes is called with
MaxColl == 3

\* bodies of non-success responses: JSON values
ErrorJsonBodies ==
  { JObj("message" :> JStr("not allowed")),
    JObj("error" :> JStr("title too long")),
    JObj(("message" :> JStr("not allowed")) @@ ("error" :> JStr("denied"))),
    JObj(("message" :> JStr("")) @@ ("error" :> JStr("denied"))),
    JObj(("message" :> JNull) @@ ("error" :> JStr("denied"))),
    JObj("message" :> JNum(42)),
    JObj("message" :> JObj("code" :> JNum(1))),
    JObj("message" :> JObj("toString" :> JStr("x"))),
    JObj("error" :> JArr(<<JStr("a"), JObj("toString" :> JNull)>>)),
    JObj(("message" :> JArr(<<>>)) @@ ("error" :> JStr("denied"))),
    JObj(("message" :> JBool(FALSE)) @@ ("error" :> JArr(<<JStr("a"),
                                                           JNull, JNum(2)>>))),
    JObj("detail" :> JStr("nothing to show")),
    JObj("error" :> JStr("")),
    JObj(<<>>),
    JArr(<<>>),
    JStr("quoted text"),
    JNull }

\* the builds request() runs in: no variable set, one of the two, both
AdapterEnvs ==
  Envs \cup { [REACT_APP_API_BASE |-> "",
               REACT_APP_BACKEND_URL |-> "https://backend.example"] }

\* what fetch settles with for request()
RequestResponses ==
  { Response(FALSE, st, "application/json", body, "(json)") :
      st \in {404, 500}, body \in ErrorJsonBodies }
  \cup { Response(FALSE, st, ct, JUndefined, text) :
           st \in {404, 500}, ct \in {"text/plain", ""},
           text \in {"Not found", ""} }
  \cup { Response(FALSE, 400, "application/json;charset=UTF-8",
                  JObj("message" :> JStr("not allowed")), "(json)"),
         Response(FALSE, 400, "text/plain; x=application/json",
                  JObj("message" :> JStr("not allowed")), "(json)"),
         Response(FALSE, 400, "application/problem+json",
                  JUndefined, "{\"message\":\"not allowed\"}"),
         Response(FALSE, 502, "application/json",
                  JInvalid(SyntaxErrorMessage), ""),
         Response(TRUE, 204, "application/json",
                  JInvalid(SyntaxErrorMessage), ""),
         FetchRejects("Failed to fetch"),
         OkJson(JObj("error" :> JStr("ignored"))),
         Response(TRUE, 204, "", JUndefined, "") }

\* raw notes as servers spell them
RawA == JObj(("id" :> JStr("1")) @@ ("title" :> JStr(<<"A">>))
             @@ ("content" :> JStr("x")))
RawB == JObj(("_id" :> JStr("2")) @@ ("name" :> JStr(<<" ", "B">>))
             @@ ("body" :> JStr("y")) @@ ("updated_at" :> JStr(T_MID)))
RawNoId == JObj("title" :> JStr(<<"n", "o">>))
\* a raw note whose id has no string: String throws a TypeError
RawNoString == JObj(("id" :> JObj("toString" :> JNum(1)))
                    @@ ("title" :> JStr(<<"C">>)))

\* success payloads of GET /notes
ListPayloads ==
  { JArr(<<>>),
    JArr(<<RawA, RawNoId, RawB>>),
    JArr(<<RawB, JStr("junk"), JNull, RawA>>),
    JObj("data" :> JArr(<<RawB, RawA>>)),
    JObj("items" :> JArr(<<RawA>>)),
    JObj("notes" :> JArr(<<RawB>>)),
    JObj(("items" :> JArr(<<RawA>>)) @@ ("notes" :> JArr(<<RawB>>))),
    JObj(("items" :> JStr("none")) @@ ("notes" :> JArr(<<RawB>>))),
    JObj(("data" :> JArr(<<RawB>>)) @@ ("items" :> JArr(<<RawA>>))),
    JObj(("data" :> JNull) @@ ("items" :> JArr(<<RawA>>))),
    JObj(("data" :> JObj("total" :> JNum(1))) @@ ("notes" :> JArr(<<RawA>>))),
    JObj("data" :> JObj("items" :> JArr(<<
      JObj(("_id" :> JStr("1")) @@ ("name" :> JStr(<<"A">>))
           @@ ("body" :> JStr("x"))) >>))),
    JObj("data" :> JObj("notes" :> JArr(<<RawA, RawB>>))),
    JObj("data" :> JObj("data" :> JArr(<<RawA>>))),
    JArr(<<RawA, RawNoString, RawB>>),
    JObj("notes" :> JArr(<<JObj("updatedAt" :> JObj("toString" :> JNull))>>)),
    JObj(("data" :> JNum(0)) @@ ("items" :> JArr(<<RawNoString>>))),
    JObj("count" :> JNum(0)),
    JNum(7),
    JNull }

ListCallResponses ==
  { OkJson(payload) : payload \in ListPayloads }
  \cup { Response(TRUE, 200, "text/plain", JUndefined, "[]"),
         Response(TRUE, 200, "application/json",
                  JInvalid(SyntaxErrorMessage), ""),
         Response(FALSE, 500, "text/plain", JUndefined, "down"),
         FetchRejects("Failed to fetch") }

\* the fields of a raw note, by what the server sends for each of the note's
\* properties: nothing, a value, null or an empty value under the candidate
\* names
NoFields == [k \in {} |-> JNull]

IdFields ==
  { NoFields,
    "id" :> JStr("1"),
    "id" :> JStr(""),
    "id" :> JNull,
    ("id" :> JNull) @@ ("_id" :> JStr("2")),
    ("_id" :> JStr("2")) @@ ("noteId" :> JStr("3")),
    "noteId" :> JNum(7),
    "id" :> JObj("a" :> JNum(1)),
    "_id" :> JArr(<<JStr("a"), JStr("b")>>),
    "id" :> JObj("toString" :> JNum(1)) }

TitleFields ==
  { NoFields,
    "title" :> JStr(<<" ", "A", " ">>),
    "title" :> JStr(<<"\r", "\n", "A", "U+FEFF", "\f">>),
    "title" :> JStr(<<>>),
    ("title" :> JNull) @@ ("name" :> JStr(<<"B">>)),
    "name" :> JStr(<<"B", " ">>),
    "title" :> JStr(<<"U+00A0", "U+00E9", "U+200B", "U+3000">>),
    "title" :> JArr(<<JStr(" a"), JNum(1), JStr("b ")>>),
    "name" :> JArr(<<JArr(<<JObj(("toString" :> JStr("t"))
                                 @@ ("valueOf" :> JNum(2)))>>)>>) }

ContentFields ==
  { NoFields,
    "content" :> JStr(" x "),
    ("content" :> JStr("")) @@ ("body" :> JStr("y")),
    "body" :> JNull,
    "text" :> JStr("z"),
    "content" :> JBool(FALSE) }

StampFields ==
  { NoFields,
    "updatedAt" :> JStr(T_NEW),
    ("updatedAt" :> JStr("")) @@ ("updated_at" :> JStr(T_MID)),
    "modified_at" :> JStr(T_MID),
    ("modifiedAt" :> JNull) @@ ("createdAt" :> JStr(T_OLD)),
    "created_at" :> JStr(T_OLD),
    ("updatedAt" :> JStr(T_NEW)) @@ ("created_at" :> JStr(T_MID)),
    ("updatedAt" :> JNum(0)) @@ ("createdAt" :> JNum(86400000)),
    "updatedAt" :> JArr(<<>>),
    ("modifiedAt" :> JStr(T_MID)) @@ ("created_at" :> JArr(<<JNull>>)),
    "createdAt" :> JObj("toString" :> JBool(TRUE)) }

RawObjects ==
  { JObj(i @@ t @@ c @@ st) :
      i \in IdFields, t \in TitleFields, c \in ContentFields,
      st \in StampFields }

\* raw values that are no note at all
RawOthers == { JNull, JUndefined, JStr("text"), JNum(0), JArr(<<>>) }

\* a UI note as the object it is: every property a string
NoteAsRaw(n) == JObj([k \in DOMAIN n |-> JStr(n[k])])

\* UI notes with and without timestamps: one before the epoch, one a date
\* only (UTC), one a date and time with no zone (local time), one in a form
\* only the legacy parser reads
SortPool ==
  { [id |-> "a", title |-> <<>>, content |-> "",
     updatedAt |-> "1970-01-01T00:00:02.000Z"],
    [id |-> "b", title |-> <<>>, content |-> "",
     createdAt |-> "1970-01-01T00:00:01.000Z"],
    [id |-> "c", title |-> <<>>, content |-> ""],
    [id |-> "d", title |-> <<>>, content |-> "",
     createdAt |-> "1969-12-31T23:59:59.000Z"],
    [id |-> "e", title |-> <<>>, content |-> "", updatedAt |-> T_MID,
     createdAt |-> T_NEW],
    [id |-> "f", title |-> <<>>, content |-> "", updatedAt |-> "2024-01-01"],
    [id |-> "g", title |-> <<>>, content |-> "",
     updatedAt |-> "2024-01-01T00:00:00"],
    [id |-> "h", title |-> <<>>, content |-> "",
     createdAt |-> "12/31/2023 22:00 GMT"] }

Collections == UNION { [1..n -> SortPool] : n \in 0..MaxColl }

Call(fn, arg) == [fn |-> fn, arg |-> arg, done |-> FALSE]

Returned(result) ==
  [fn |-> call.fn, arg |-> call.arg, done |-> TRUE, result |-> result]

\* the time zones of the calls: behind UTC, UTC and ahead of UTC
AdapterTimeZones == DOMAIN LocalZones

\* no component is rendered; one call is about to be made
AdapterInit ==
  /\ notes = <<>>
  /\ selectedId = Null
  /\ mode = "view"
  /\ draft = EMPTY_DRAFT
  /\ touched = FALSE
  /\ isBusy = FALSE
  /\ error = ""
  /\ status = ""
  /\ inflight = <<>>
  /\ timers = 0
  /\ mounted = FALSE
  /\ event = "none"
  /\ apiBase \in {API_BASE(env) : env \in AdapterEnvs}
  /\ loadEffect = "none"
  /\ draftEffect = "none"
  /\ timeZone \in AdapterTimeZones
  /\ \/ \E res \in RequestResponses : call = Call("request", res)
     \/ \E res \in ListCallResponses : call = Call("listNotes", res)
     \/ \E raw \in RawObjects : call = Call("toUiNote", raw)
     \/ \E raw \in RawOthers : call = Call("toUiNote", raw)
     \/ \E c \in Collections : call = Call("sortNotes", c)

AppUnchanged ==
  UNCHANGED <<notes, selectedId, mode, draft, touched, isBusy, error, status,
              inflight, timers, mounted, event, apiBase, loadEffect,
              draftEffect, timeZone>>

CallRequest ==
  /\ call.fn = "request"
  /\ ~call.done
  /\ call' = Returned(request(apiBase, call.arg))
  /\ AppUnchanged

CallListNotes ==
  /\ call.fn = "listNotes"
  /\ ~call.done
  /\ call' = Returned(listNotes(apiBase, call.arg))
  /\ AppUnchanged

CallToUiNote ==
  /\ call.fn = "toUiNote"
  /\ ~call.done
  /\ call' = Returned(toUiNote(call.arg))
  /\ AppUnchanged

\* the note a call of toUiNote returned is normalized again
CallToUiNoteAgain ==
  /\ call.fn = "toUiNote"
  /\ call.done
  /\ ~call.result.throw
  /\ call' = [fn |-> "toUiNote(toUiNote)", arg |-> call.arg, done |-> TRUE,
              first |-> call.result,
              result |-> toUiNote(NoteAsRaw(call.result.value))]
  /\ AppUnchanged

CallSortNotes ==
  /\ call.fn = "sortNotes"
  /\ ~call.done
  /\ call' = Returned(sortNotes(call.arg, timeZone))
  /\ AppUnchanged

AdapterNext ==
  \/ CallRequest
  \/ CallListNotes
  \/ CallToUiNote
  \/ CallToUiNoteAgain
  \/ CallSortNotes

AdapterSpec == AdapterInit /\ [][AdapterNext]_vars

(***************************************************************************)
(* Properties.                                                             *)
(***************************************************************************)
SaveEvents == {"save", "submit"}

\* C1: a save (the Save button or the form's submit) whose draft title has a
\* trimmed length above 80 issues no createNote or updateNote call and leaves
\* the mode unchanged, whatever the touched flag is.
C1_LongTitleNeverReachesAdapter ==
  [][(event' \in SaveEvents /\ Len(Trim(draft.title)) > MaxTitleLen)
       => (inflight' = inflight /\ mode' = mode)]_vars

\* C2: a save whose draft title is empty after trimming calls no adapter
\* function, does not set the busy flag, leaves mode, collection and selection
\* unchanged, and sets touched so that "Title is required." is shown.
C2_BlankTitleSaveStaysLocal ==
  [][(event' \in SaveEvents /\ Trim(draft.title) = <<>>)
       => /\ inflight' = inflight
          /\ isBusy' = isBusy
          /\ mode' = mode
          /\ notes' = notes
          /\ selectedId' = selectedId
          /\ touched' = TRUE
          /\ TitleErrorOf(draft', touched') = "Title is required."]_vars

\* a whitespace-only title was submitted in create mode and the error is shown
C2_Witness ==
  /\ event = "submit"
  /\ mode = "create"
  /\ Len(draft.title) > 0
  /\ Trim(draft.title) = <<>>
  /\ titleError = "Title is required."
  /\ inflight = <<>>

\* C3: at most one adapter request is in flight at any time, the busy flag is
\* set for as long as one is, and while the busy flag is set no event starts
\* another request.
C3_OneRequestInFlight ==
  /\ [](Len(inflight) <= 1 /\ (Len(inflight) > 0 => isBusy))
  /\ [][isBusy => Len(inflight') <= Len(inflight)]_vars

\* the form was submitted again, with another title, while the create request
\* was in flight, and there is still one request
C3_Witness ==
  /\ event = "submit"
  /\ isBusy
  /\ Len(inflight) = 1
  /\ inflight[1].op = "createNote"
  /\ Trim(draft.title) # inflight[1].title

\* C4: handling the rejection of createNote, updateNote or deleteNote changes
\* only the error text and the busy flag: collection, selection, mode and
\* draft (and touched, status, timers) stay, the busy flag is cleared and no
\* request is in flight afterwards.
C4_RejectionChangesOnlyErrorAndBusy ==
  [][event' \in {"saveRejected", "deleteRejected"}
       => /\ notes' = notes
          /\ selectedId' = selectedId
          /\ mode' = mode
          /\ draft' = draft
          /\ touched' = touched
          /\ status' = status
          /\ timers' = timers
          /\ isBusy' = FALSE
          /\ inflight' = <<>>]_vars

\* a rejected update: still in edit mode with the edited draft, the error shown
C4_Witness ==
  /\ event = "saveRejected"
  /\ mode = "edit"
  /\ error # ""
  /\ ~isBusy
  /\ selectedNote # NoNote
  /\ draft # DraftOf(selectedNote)

\* C5: the selection is null only if the collection is empty.
C5_NullSelectionOnlyWhenEmpty ==
  selectedId = Null => notes = <<>>

\* the selected note was deleted and another one remains: it is selected
C5_Witness ==
  /\ event = "deleteResolved"
  /\ Len(notes) = 1
  /\ selectedId = notes[1].id

\* C6: in view mode, once the draft-sync effect of the last state change has
\* run, the draft equals the title and content of the selected note as it
\* stands in the collection (stated for the states in which a note of the
\* collection is selected).
C6_ViewDraftMirrorsSelection ==
  (mode = "view" /\ selectedNote # NoNote /\ draftEffect = "flushed")
    => draft = DraftOf(selectedNote)

\* C7: the collection is ordered by non-increasing activity timestamp in
\* every reachable state: it is ordered at first and every store of the
\* collection (after load, create, update and delete) leaves it ordered.
C7_NotesSorted ==
  /\ \A i, j \in 1..Len(notes) :
       i < j => ~After(toTs(notes[j], timeZone), toTs(notes[i], timeZone))
  /\ [][notes' # notes =>
          \A i, j \in 1..Len(notes') :
            i < j => ~After(toTs(notes'[j], timeZone),
                            toTs(notes'[i], timeZone))]_vars

\* a create stored the new note, which has no timestamp, behind the stamped
\* note the collection held
C7_Witness ==
  /\ event = "saveResolved"
  /\ status = "Saved."
  /\ Len(notes) = 2
  /\ selectedId = notes[2].id
  /\ "updatedAt" \notin DOMAIN notes[2]
  /\ After(toTs(notes[1], timeZone), toTs(notes[2], timeZone))

\* C8: when a delete succeeds the note is removed and every other note stays;
\* if the deleted note was the selected one, the selection becomes the first
\* remaining note (or null), the mode becomes view and the draft becomes that
\* note's title and content (or empty).
C8_DeleteSuccess ==
  [][event' = "deleteResolved"
       => LET id == inflight[1].id
              rest == SelectSeq(notes, LAMBDA n : n.id # id)
          IN /\ notes' = rest
             /\ selectedId = id
                  => /\ selectedId' = (IF rest # <<>> THEN rest[1].id ELSE Null)
                     /\ mode' = "view"
                     /\ draft' = (IF rest # <<>> THEN DraftOf(rest[1])
                                  ELSE EMPTY_DRAFT)]_vars

\* C9: a deleteNote request is issued only by a delete whose confirmation
\* prompt returned yes; when the prompt returns no, no request is issued and
\* collection, selection, mode, draft and busy flag are unchanged.
C9_DeleteOnlyAfterConfirm ==
  [][/\ (/\ Len(inflight') > Len(inflight)
         /\ inflight'[Len(inflight')].op = "deleteNote") => event' = "deleteYes"
     /\ event' = "deleteNo"
          => /\ inflight' = inflight
             /\ notes' = notes
             /\ selectedId' = selectedId
             /\ mode' = mode
             /\ draft' = draft
             /\ isBusy' = isBusy]_vars

\* a delete was declined while a note was being edited
C9_Witness ==
  /\ event = "deleteNo"
  /\ mode = "edit"
  /\ notes # <<>>
  /\ inflight = <<>>
  /\ ~isBusy

\* C10: a status message is cleared by its own timer only: showing a message
\* cancels the timers pending from earlier messages, so a timer that fires
\* while a message is shown is the only one pending. (All timers have the same
\* delay: the one that fires is the oldest pending.)
C10_TimerClearsOnlyItsOwnMessage ==
  [][(mounted /\ event' = "timer" /\ status # "") => timers = 1]_vars

\* C11: once the component is unmounted while the initial listNotes call is in
\* flight, the resolution or rejection of that call changes no state: notes,
\* selection, status, error and busy flag (and mode, draft, touched) stay.
C11_UnmountedLoadChangesNothing ==
  [][(~mounted /\ event' \in {"loadResolved", "loadRejected"})
       => /\ notes' = notes
          /\ selectedId' = selectedId
          /\ status' = status
          /\ error' = error
          /\ isBusy' = isBusy
          /\ mode' = mode
          /\ draft' = draft
          /\ touched' = touched]_vars

\* the initial load resolved after the unmount: the state is still the one of
\* the first render
C11_Witness ==
  /\ ~mounted
  /\ event = "loadResolved"
  /\ inflight = <<>>
  /\ notes = <<>>
  /\ selectedId = Null
  /\ status = "Loading notes..."
  /\ error = ""
  /\ isBusy

\* C12: when a save succeeds, in create mode the collection afterwards is the
\* previous notes plus the created note (the note createNote returned), that
\* note is the selected one and the mode is view; in edit mode the note with the
\* edited id is the version updateNote returned, every other note stays, the
\* set of ids is the same and the mode is view.
C12_SaveSuccess ==
  [][event' = "saveResolved"
       => LET req == inflight[1]
          IN IF req.op = "createNote"
             THEN \E res \in CreateResponses(req) :
                    LET created == createNote(apiBase, res)
                    IN /\ ~created.throw
                       /\ Len(notes') = Len(notes) + 1
                       /\ {notes'[k] : k \in 1..Len(notes')}
                            = {notes[k] : k \in 1..Len(notes)}
                                \cup {created.value}
                       /\ SelectedNoteOf(notes', selectedId') = created.value
                       /\ mode' = "view"
             ELSE \E res \in UpdateResponses(req) :
                    LET updated == updateNote(apiBase, res)
                    IN /\ ~updated.throw
                       /\ Len(notes') = Len(notes)
                       /\ Ids(notes') = Ids(notes)
                       /\ FirstWithId(notes', req.id) = updated.value
                       /\ \A k \in 1..Len(notes) :
                            notes[k].id # req.id
                              => \E j \in 1..Len(notes') : notes'[j] = notes[k]
                       /\ mode' = "view"]_vars

\* C13: selecting a note of the collection, from any mode and whether or not a
\* request is in flight, results in mode = view, that note being the selected
\* one, touched cleared and the draft equal to that note's title and content,
\* and leaves the collection unchanged (stated for the notes that have an id,
\* and for the selects after which no draft-sync effect is still to run).
C13_SelectResyncsDraft ==
  [][(event' = "select" /\ selectedId' # "" /\ draftEffect' = "flushed")
       => /\ mode' = "view"
          /\ SelectedNoteOf(notes', selectedId') # NoNote
          /\ touched' = FALSE
          /\ draft' = DraftOf(FirstWithId(notes, selectedId'))
          /\ notes' = notes]_vars

\* C14: createNote fails whenever the server's success response holds no usable
\* note (a payload that is no object, or one that normalizes to an empty id),
\* and then no note is added and the selection stays: the success path of a
\* create is taken only with a note that has an id, so a resolved create never
\* leaves a note with an empty id in the collection nor selects the empty id.
C14_UnusableCreateResponseFails ==
  [][(event' = "saveResolved" /\ inflight[1].op = "createNote")
       => /\ \A k \in 1..Len(notes') : notes'[k].id # ""
          /\ selectedId' # ""]_vars

\* C15: every rejected adapter call (load, create, update, delete) of the
\* mounted component ends with a non-empty error message displayed, whatever
\* the body of the non-success response.
C15_RejectionShowsMessage ==
  [][(mounted /\ event' \in {"loadRejected", "saveRejected", "deleteRejected"})
       => error' # ""]_vars

\* C20: in every reachable state a selectedId that is not null is the id of a
\* note of the collection, also after a select made while a delete request was
\* in flight.
C20_SelectionInCollection ==
  selectedId # Null => selectedId \in Ids(notes)

\* C16: for a non-success response request() throws an error whose message is
\* chosen in this order: the body itself when the body is text, else the
\* body's message field, else its error field (a field counts when its value
\* is truthy, and gives that value as a string, when it has one), else
\* "Request failed (<status>)".
C16_ErrorMessageOrder ==
  (/\ call.fn = "request"
   /\ call.done
   /\ apiBase # ""
   /\ ~call.arg.rejects
   /\ ~call.arg.ok)
    => LET res == call.arg
           json == IncludesJson(res.contentType)
           isText == ~json \/ res.json.t = "string"
           has(k) == /\ json
                     /\ res.json.t = "object"
                     /\ k \in DOMAIN res.json.v
                     /\ Truthy(res.json.v[k])
           isField(message, k) ==
             LET text == String(res.json.v[k])
             IN ~text.throw => message = text.value
       IN /\ call.result.throw
          /\ IF isText
             THEN call.result.message =
                    (IF json THEN res.json.v ELSE res.text)
             ELSE IF has("message") THEN isField(call.result.message, "message")
             ELSE IF has("error") THEN isField(call.result.message, "error")
             ELSE call.result.message =
                    "Request failed (" \o ToString(res.status) \o ")"

\* C17 as the spec words it: listNotes returns the normalized elements, in
\* payload order and without those whose normalized id is empty, of the first
\* array among: the payload itself, the value under its data key, under its
\* items key, under its notes key; every other payload gives the empty
\* sequence (nothing is said of an array with an element toUiNote throws for).
C17_ListPrecedenceAsWorded ==
  (/\ call.fn = "listNotes"
   /\ call.done
   /\ apiBase # ""
   /\ ~call.arg.rejects
   /\ call.arg.ok
   /\ ~parseJsonOrText(call.arg).throw)
    => LET payload == parseJsonOrText(call.arg).value
           under(k) == Get(payload, k)
           found == IF payload.t = "array" THEN payload.v
                    ELSE IF under("data").t = "array" THEN under("data").v
                    ELSE IF under("items").t = "array" THEN under("items").v
                    ELSE IF under("notes").t = "array" THEN under("notes").v
                    ELSE <<>>
           normalized == [k \in 1..Len(found) |-> toUiNote(found[k])]
       IN (\A k \in 1..Len(found) : ~normalized[k].throw)
            => /\ ~call.result.throw
               /\ call.result.value =
                    SelectSeq([k \in 1..Len(found) |-> normalized[k].value],
                              LAMBDA n : n.id # "")

\* C17, amended: for a success response whose body parses, a payload that is
\* an object with a data key is first replaced by the value under that key;
\* the array is then the first among: that value itself, the value under its
\* items key, under its notes key, and the empty sequence for every other
\* shape. When toUiNote normalizes every element of the array, listNotes
\* returns the normalized elements, in order and without those whose
\* normalized id is empty; when it throws for an element (a field that has
\* no string), listNotes rejects with that TypeError.
C17_ListUnwrapsDataFirst ==
  (/\ call.fn = "listNotes"
   /\ call.done
   /\ apiBase # ""
   /\ ~call.arg.rejects
   /\ call.arg.ok
   /\ ~parseJsonOrText(call.arg).throw)
    => LET payload == parseJsonOrText(call.arg).value
           inner == IF payload.t = "object" /\ "data" \in DOMAIN payload.v
                    THEN payload.v["data"] ELSE payload
           under(k) == Get(inner, k)
           found == IF inner.t = "array" THEN inner.v
                    ELSE IF under("items").t = "array" THEN under("items").v
                    ELSE IF under("notes").t = "array" THEN under("notes").v
                    ELSE <<>>
           normalized == [k \in 1..Len(found) |-> toUiNote(found[k])]
       IN IF \E k \in 1..Len(found) : normalized[k].throw
          THEN call.result = Throw(TypeErrorMessage)
          ELSE /\ ~call.result.throw
               /\ call.result.value =
                    SelectSeq([k \in 1..Len(found) |-> normalized[k].value],
                              LAMBDA n : n.id # "")

\* {data: {items: [{_id: "1", name: "A", body: "x"}]}} gave the one note
C17_Witness ==
  /\ call.fn = "listNotes"
  /\ call.done
  /\ apiBase # ""
  /\ ~call.arg.rejects
  /\ Get(Get(call.arg.json, "data"), "items").t = "array"
  /\ ~call.result.throw
  /\ call.result.value = << [id |-> "1", title |-> <<"A">>, content |-> "x"] >>

\* C18: normalization is idempotent: toUiNote applied to the note toUiNote
\* returned for a raw value (an object using any of the candidate field names
\* with present, null, empty or missing values, or no object) returns a note
\* with exactly the same fields and values.
C18_NormalizeIdempotent ==
  call.fn = "toUiNote(toUiNote)" => call.result = call.first

\* C19: in the collection sortNotes returns, a note with a later activity
\* timestamp (updatedAt, else createdAt) comes before every note with an
\* earlier one, and a note with neither updatedAt nor createdAt comes before
\* no note that has a timestamp, whatever that timestamp's instant.
C19_SortOrder ==
  (call.fn = "sortNotes" /\ call.done)
    => LET r == call.result
           stamp(n) == IF "updatedAt" \in DOMAIN n THEN n.updatedAt
                       ELSE IF "createdAt" \in DOMAIN n THEN n.createdAt
                       ELSE ""
           instant(n) == DateParse(stamp(n), timeZone)
       IN \A i, j \in 1..Len(r) :
            i < j => /\ (stamp(r[i]) # "" /\ stamp(r[j]) # "")
                          => ~After(instant(r[j]), instant(r[i]))
                     /\ ~(stamp(r[i]) = "" /\ stamp(r[j]) # "")

====
